---------------------------- MODULE Spec2Model ----------------------------
(***************************************************************************)
(* A state-machine model of the VTK export code of DGTile                  *)
(* (src/dgt_vtk.cpp): the binary array encoder write_data, the rectilinear *)
(* block writer (write_vtr_start / write_field / write_vtr_end), the       *)
(* manifest writer write_vtm and the tree writer write_tree.               *)
(*                                                                         *)
(* The stream is a sequence of lines.  A line is an XML tag (its name, its *)
(* attributes as name/value text pairs), a line of ascii text, or a line   *)
(* of base64 characters.  Numbers are converted to their decimal text.     *)
(* Floating point values are carried as integers in a fixed unit (all the  *)
(* inputs are chosen so that the divisions of the code are exact); the     *)
(* in-memory bytes of a value are its little-endian two's complement bytes *)
(* at the width of the element type.                                       *)
(***************************************************************************)
EXTENDS Integers, Sequences, FiniteSets

VARIABLES
  stream,   \* the std::stringstream the writers append to
  err,      \* the exception that left the current call ("none": none)
  calls,    \* history of the write_data calls: what each read and produced
  pc,       \* the position of the caller in its call sequence
  inp,      \* the arguments of the export call in progress
  leaves,   \* write_tree's vector of leaves, as collect_leaves returned it
  ntraverse,\* how many times collect_leaves has run
  files,    \* the files write_stream has written
  ncall     \* how many write_data calls the last export call made

vars == <<stream, err, calls, pc, inp, leaves, ntraverse, files, ncall>>

---------------------------------------------------------------------------
(* Bounds of the model.                                                    *)

MaxCells == 2      \* cells per axis of a block
MaxFields == 2     \* write_field calls between write_vtr_start and _end
MaxBlocks == 12    \* blocks a manifest names
MaxDepth == 2      \* refinement depth of the tree
MaxElems == 2      \* tuples of a field array given to a bare write_field

---------------------------------------------------------------------------
(* Text conversions: operator<< of an int and of a double.                 *)

Digit(d) == <<"0","1","2","3","4","5","6","7","8","9">>[d + 1]

RECURSIVE NatText(_)
NatText(n) == IF n < 10 THEN Digit(n) ELSE NatText(n \div 10) \o Digit(n % 10)

\* stream << int; std::to_string(int)
to_string(n) == IF n < 0 THEN "-" \o NatText(-n) ELSE NatText(n)

RECURSIVE Digits(_)
Digits(n) == IF n < 10 THEN <<n>> ELSE Append(Digits(n \div 10), n % 10)

RECURSIVE DigitText(_)
DigitText(ds) == IF ds = <<>> THEN "" ELSE Digit(Head(ds)) \o DigitText(Tail(ds))

\* stream << std::scientific << std::setprecision(12) << time, for a time
\* that is a whole number below 10^9: d.dddddddddddde+XX
SciText(t) ==
  LET ds == Digits(t)
      e  == Len(ds) - 1
      frac == [k \in 1..12 |-> IF k + 1 <= Len(ds) THEN ds[k + 1] ELSE 0]
  IN  Digit(ds[1]) \o "." \o DigitText(frac) \o "e+" \o Digit(e \div 10) \o Digit(e % 10)

---------------------------------------------------------------------------
(* Bytes.                                                                  *)

\* the w bytes of the two's complement integer v, least significant first
LEBytes(v, w) ==
  [i \in 1..w |-> IF i <= 4 THEN (v \div (256 ^ (i - 1))) % 256
                  ELSE IF v < 0 THEN 255 ELSE 0]

\* the signed integer held by (the low four of) little-endian bytes b
FromLE(b) ==
  LET hi == IF b[4] >= 128 THEN b[4] - 256 ELSE b[4]
  IN  b[1] + 256 * b[2] + 65536 * b[3] + 16777216 * hi

\* the concatenation of the w-byte encodings of the values vs
ValueBytes(vs, w) ==
  [k \in 1..(w * Len(vs)) |-> LEBytes(vs[((k - 1) \div w) + 1], w)[((k - 1) % w) + 1]]

\* the values held by a byte buffer of w-byte elements
BytesValues(b, w) ==
  [j \in 1..(Len(b) \div w) |-> FromLE(SubSeq(b, (j - 1) * w + 1, (j - 1) * w + 4))]

---------------------------------------------------------------------------
(* base64::encode of dgt_file.hpp: standard base64 with '=' padding.       *)

B64Chars ==
  << "A","B","C","D","E","F","G","H","I","J","K","L","M","N","O","P",
     "Q","R","S","T","U","V","W","X","Y","Z","a","b","c","d","e","f",
     "g","h","i","j","k","l","m","n","o","p","q","r","s","t","u","v",
     "w","x","y","z","0","1","2","3","4","5","6","7","8","9","+","/" >>

base64_encode(bytes) ==
  LET n == Len(bytes)
      at(k) == IF k <= n THEN bytes[k] ELSE 0
  IN  [k \in 1..(4 * ((n + 2) \div 3)) |->
         LET g == (k - 1) \div 4
             j == (k - 1) % 4
             triple == at(3 * g + 1) * 65536 + at(3 * g + 2) * 256 + at(3 * g + 3)
         IN  IF j >= 2 /\ 3 * g + j > n THEN "="
             ELSE B64Chars[((triple \div (64 ^ (3 - j))) % 64) + 1]]

---------------------------------------------------------------------------
(* zlib.  compress2 is modelled by one valid zlib stream of its input: the *)
(* two-byte zlib header, the input as one stored deflate block, and the    *)
(* Adler-32 checksum of the input (inputs stay below the 65535 bytes a     *)
(* stored block holds).                                                    *)

AdlerBase == 65521

RECURSIVE SumMod(_, _, _)
\* the sum of s[lo..hi], modulo AdlerBase
SumMod(s, lo, hi) ==
  IF lo > hi THEN 0
  ELSE IF lo = hi THEN s[lo] % AdlerBase
  ELSE LET mid == (lo + hi) \div 2
       IN  (SumMod(s, lo, mid) + SumMod(s, mid + 1, hi)) % AdlerBase

\* the four bytes of the Adler-32 checksum, most significant first
Adler32(data) ==
  LET n == Len(data)
      wgt == [i \in 1..n |-> (n - i + 1) * data[i]]
      a == (1 + SumMod(data, 1, n)) % AdlerBase
      b == (n + SumMod(wgt, 1, n)) % AdlerBase
  IN  <<b \div 256, b % 256, a \div 256, a % 256>>

\* ::compressBound(sourceLen)
compressBound(n) == n + (n \div 4096) + (n \div 16384) + (n \div 33554432) + 13

\* the bytes ::compress2(dest, &destLen, source, sourceLen, Z_BEST_SPEED)
\* leaves in dest when it returns Z_OK; destLen becomes their number
compress2(data) ==
  LET n == Len(data)
  IN  <<120, 1>>
      \o <<1, n % 256, n \div 256, 255 - (n % 256), 255 - (n \div 256)>>
      \o data
      \o Adler32(data)

---------------------------------------------------------------------------
(* Lines of the stream.                                                    *)

\* an XML tag: kind is "open" (<name ...>), "close" (</name>) or "empty"
\* (<name .../>); attrs is the sequence of its <<name, value>> pairs
Tag(kind, name, attrs) ==
  [kind |-> kind, name |-> name, attrs |-> attrs, txt |-> "", bin |-> <<>>]

\* a line of ascii text
Text(txt) == [kind |-> "text", name |-> "", attrs |-> <<>>, txt |-> txt, bin |-> <<>>]

\* a line of base64 characters
Binary(chars) ==
  [kind |-> "binary", name |-> "", attrs |-> <<>>, txt |-> "", bin |-> chars]

---------------------------------------------------------------------------
(* VizView<T>: a two-dimensional Kokkos dual view.  hv and dv are the host *)
(* and the device contents (a sequence of n0 rows of n1 values);           *)
(* modified_host and modified_device are the dual view's modify counters.  *)

X == 0
Y == 1
Z == 2
DIMS == 3

\* Kokkos::resize(view, n0, n1) of a fresh view: zero-filled on both sides
resize(sizeofT, n0, n1) ==
  [sizeofT |-> sizeofT, n0 |-> n0, n1 |-> n1,
   hv |-> [i \in 1..n0 |-> [a \in 1..n1 |-> 0]],
   dv |-> [i \in 1..n0 |-> [a \in 1..n1 |-> 0]],
   modified_host |-> 0, modified_device |-> 0]

\* the view after the host stores rows[i][a] into h_view(i-1, a-1)
host_fill(view, rows) == [view EXCEPT !.hv = rows]

\* dual.sync<host_mirror_space>(): copies the device contents to the host
\* when the device side was modified last, and clears the counters
sync_host(view) ==
  IF view.modified_device > view.modified_host
  THEN [view EXCEPT !.hv = view.dv, !.modified_host = 0, !.modified_device = 0]
  ELSE view

\* the contents a reader of the array must see: those of the side that
\* was modified last
Current(view) ==
  IF view.modified_device > view.modified_host THEN view.dv ELSE view.hv

\* field.data(): the elements of the rows, row after row
Flatten(rows, n1) ==
  [k \in 1..(Len(rows) * n1) |-> rows[((k - 1) \div n1) + 1][((k - 1) % n1) + 1]]

\* the sizeof(T) * field.size() bytes at field.data()
RawBytes(rows, n1, sizeofT) == ValueBytes(Flatten(rows, n1), sizeofT)

---------------------------------------------------------------------------
(* The writers.  A writer takes and returns a record w: the stream, the    *)
(* exception in flight (err), the history of write_data calls, and zlib's  *)
(* behaviour in this call: zfail is the number, counted from 1 in the      *)
(* current export call, of the compress2 call that fails (0: none does),   *)
(* ncall the number of compress2 calls made so far.  After an exception    *)
(* the rest of the call is skipped.                                        *)

Put(w, line) == IF w.err # "none" THEN w ELSE [w EXCEPT !.stream = Append(@, line)]

\* the return value of the next ::compress2 call
compress2_ret(w) == IF w.ncall + 1 = w.zfail THEN "Z_MEM_ERROR" ELSE "Z_OK"

\* a write_data that does not look at what compress2 returned
zlib_unchecked(ret) == FALSE

\* if (ret != Z_OK) throw std::runtime_error("vtk - zlib error")
zlib_throws(ret) == ret # "Z_OK"

\* a header that gives the size of the destination buffer, compressBound,
\* in place of the size compress2 reported
data_header_bound(uncompressed_bytes, dest_bytes) ==
  <<1, uncompressed_bytes, uncompressed_bytes, compressBound(uncompressed_bytes)>>

\* std::uint64_t header[4] = {1, uncompressed_bytes, uncompressed_bytes, dest_bytes}
data_header(uncompressed_bytes, dest_bytes) ==
  <<1, uncompressed_bytes, uncompressed_bytes, dest_bytes>>

\* the 32 bytes of the header array
header_bytes(header) == ValueBytes(header, 8)

\* the view write_data reads: synchronised to the host first if copy
data_source(dual, copy) == IF copy THEN sync_host(dual) ELSE dual

\* the three stream.write calls: the header, the payload, the newline
data_line(enc_header, encoded) == Binary(enc_header \o encoded)

write_data(w, dual, copy) ==
  IF w.err # "none" THEN w
  ELSE
    LET field == data_source(dual, copy)
        uncompressed_bytes == dual.sizeofT * (Len(field.hv) * field.n1)
        source == RawBytes(field.hv, field.n1, field.sizeofT)
        bound == compressBound(uncompressed_bytes)
        ret == compress2_ret(w)
        compressed == compress2(source)
        dest_bytes == Len(compressed)
        encoded == base64_encode(compressed)
        enc_header == base64_encode(header_bytes(data_header(uncompressed_bytes, dest_bytes)))
        call == [dual |-> dual, copy |-> copy, read |-> source, ret |-> ret,
                 bound |-> bound, compressed |-> compressed,
                 at |-> Len(w.stream), thrown |-> zlib_throws(ret)]
        w1 == [w EXCEPT !.calls = Append(@, call), !.ncall = @ + 1]
    IN  IF zlib_throws(ret)
        THEN [w1 EXCEPT !.err = "vtk - zlib error"]
        ELSE Put(w1, data_line(enc_header, encoded))

write_data_start(w, type, name, ncomps) ==
  Put(w, Tag("open", "DataArray",
             << <<"type", type>>, <<"Name", name>>,
                <<"NumberOfComponents", to_string(ncomps)>>, <<"format", "binary">> >>))

write_fdata_start(w, type, name, ntuples) ==
  Put(w, Tag("open", "DataArray",
             << <<"type", type>>, <<"Name", name>>,
                <<"NumberOfTuples", to_string(ntuples)>>, <<"format", "ascii">> >>))

write_data_end(w) == Put(w, Tag("close", "DataArray", <<>>))

---------------------------------------------------------------------------
(* The block grid writer.  A Block is a record: p (basis().p), cells       *)
(* (cell_grid().extents()), lower (domain().lower()), dx (dx()), depth and *)
(* ijk (node()->pt()), id, owner.  Vectors are sequences indexed from 1.   *)

write_vtr_header(w) ==
  Put(w, Tag("open", "VTKFile",
             << <<"type", "RectilinearGrid">>, <<"version", "1.0">>,
                <<"compressor", "vtkZLibDataCompressor">>,
                <<"header_type", "UInt64">> >>))

\* "0 " << n.x() << " " << "0 " << n.y() << " " << "0 " << n.z()
extent_text(n) ==
  "0 " \o to_string(n[1]) \o " " \o "0 " \o to_string(n[2]) \o " "
       \o "0 " \o to_string(n[3])

\* n = (p+1)*cells.extents() of write_vtr_rectilinear_start
whole_extent(block) == [a \in 1..DIMS |-> (block.p + 1) * block.cells[a]]

write_vtr_rectilinear_start(w, block) ==
  Put(w, Tag("open", "RectilinearGrid",
             << <<"WholeExtent", extent_text(whole_extent(block))>> >>))

write_vtr_time(w, time) ==
  write_data_end(Put(write_fdata_start(w, "Float64", "TIME", 1), Text(SciText(time))))

write_vtr_step(w, step) ==
  write_data_end(Put(write_fdata_start(w, "Int32", "STEP", 1), Text(to_string(step))))

write_vtr_block_depth(w, block) ==
  write_data_end(Put(write_fdata_start(w, "Int32", "block_depth", 1),
                     Text(to_string(block.depth))))

write_vtr_block_ijk(w, block) ==
  write_data_end(Put(write_fdata_start(w, "Int32", "block_ijk", DIMS),
                     Text(to_string(block.ijk[1]) \o " " \o to_string(block.ijk[2])
                          \o " " \o to_string(block.ijk[3]))))

write_vtr_block_id(w, block) ==
  write_data_end(Put(write_fdata_start(w, "Int32", "block_id", 1),
                     Text(to_string(block.id))))

write_vtr_block_owner(w, block) ==
  write_data_end(Put(write_fdata_start(w, "Int32", "block_owner", 1),
                     Text(to_string(block.owner))))

write_vtr_field_data(w, block, time, step) ==
  LET w1 == Put(w, Tag("open", "FieldData", <<>>))
      w2 == write_vtr_time(w1, time)
      w3 == write_vtr_step(w2, step)
      w4 == write_vtr_block_depth(w3, block)
      w5 == write_vtr_block_ijk(w4, block)
      w6 == write_vtr_block_id(w5, block)
      w7 == write_vtr_block_owner(w6, block)
  IN  Put(w7, Tag("close", "FieldData", <<>>))

\* an extent in cells, not in nodes
piece_extent_cells(block) == [a \in 1..DIMS |-> block.cells[a]]

\* n = (p+1)*cells.extents() of write_piece_start
piece_extent(block) == [a \in 1..DIMS |-> (block.p + 1) * block.cells[a]]

write_piece_start(w, block) ==
  Put(w, Tag("open", "Piece", << <<"Extent", extent_text(piece_extent(block))>> >>))

\* double const offset[max_p+1][max_p+1], in ninths
offset ==
  << <<0,  0, 0>>,
     <<0,  0, 0>>,
     <<0, -2, 2>> >>

\* offset[p][mod], in ninths.  The table has the three rows written in its
\* initialiser; with p beyond them the read is outside the array, and its
\* value is whatever the memory there holds: mem[mod + 1]
offset_read(p, mod, mem) ==
  IF p + 1 <= Len(offset) /\ mod + 1 <= Len(offset[p + 1])
  THEN offset[p + 1][mod + 1]
  ELSE mem[mod + 1]

\* int const num_pts = (p+1)*block.cell_grid().extents()[axis] + 1
coord_num_pts(p, ncells) == (p + 1) * ncells + 1

\* evenly spaced points: the node offsets left out
coord_point_even(o, dx, p, i, mem) == o + i * dx

\* o + i*dx + offset[p][mod]*dx with mod = i%(p+1)
coord_point(o, dx, p, i, mem) ==
  LET mod == i % (p + 1)
  IN  o + i * dx + (offset_read(p, mod, mem) * dx) \div 9

\* mem is what the memory beyond the offset table holds
write_coordinate(w, block, axis, mem) ==
  IF w.err # "none" THEN w
  ELSE
    LET axis_name == <<"x", "y", "z">>
        p == block.p
        num_pts == coord_num_pts(p, block.cells[axis + 1])
        o == block.lower[axis + 1]
        dx == block.dx[axis + 1] \div (p + 1)
        coord == host_fill(resize(4, num_pts, 1),
                           [k \in 1..num_pts |-> <<coord_point(o, dx, p, k - 1, mem)>>])
    IN  write_data_end(
          write_data(write_data_start(w, "Float32", axis_name[axis + 1], 1),
                     coord, FALSE))

write_coordinates(w, block, mem) ==
  LET w1 == Put(w, Tag("open", "Coordinates", <<>>))
      w2 == write_coordinate(w1, block, X, mem)
      w3 == write_coordinate(w2, block, Y, mem)
      w4 == write_coordinate(w3, block, Z, mem)
  IN  Put(w4, Tag("close", "Coordinates", <<>>))

write_vtr_start(w, block, time, step, mem) ==
  LET w1 == write_vtr_header(w)
      w2 == write_vtr_rectilinear_start(w1, block)
      w3 == write_vtr_field_data(w2, block, time, step)
      w4 == write_piece_start(w3, block)
      w5 == write_coordinates(w4, block, mem)
  IN  Put(w5, Tag("open", "CellData", <<>>))

\* std::string vtk_type_name<T>(), by sizeof and kind of T
vtk_type_name(T) ==
  CASE T = "int" -> "Int32"
    [] T = "float" -> "Float32"
    [] T = "double" -> "Float64"

sizeof(T) ==
  CASE T = "int" -> 4
    [] T = "float" -> 4
    [] T = "double" -> 8

\* a write_field that asks for no synchronisation
write_field_nocopy == FALSE

\* the copy argument write_field gives write_data
write_field_copy == TRUE

\* f is the VizView<T> argument
write_field(w, T, name, f) ==
  LET ncomps == f.n1
  IN  write_data_end(
        write_data(write_data_start(w, vtk_type_name(T), name, ncomps),
                   f, write_field_copy))

\* the closing tags with the piece closed before its cell data
vtr_end_tags_swapped == <<"Piece", "CellData", "RectilinearGrid", "VTKFile">>

\* the closing tags of write_vtr_end, in the order written
vtr_end_tags == <<"CellData", "Piece", "RectilinearGrid", "VTKFile">>

RECURSIVE PutClosing(_, _)
PutClosing(w, names) ==
  IF names = <<>> THEN w
  ELSE PutClosing(Put(w, Tag("close", Head(names), <<>>)), Tail(names))

write_vtr_end(w) == PutClosing(w, vtr_end_tags)

---------------------------------------------------------------------------
(* The manifest writer.                                                    *)

write_vtm_header(w) ==
  Put(Put(w, Tag("open", "VTKFile",
                 << <<"type", "vtkMultiBlockDataSet">>, <<"version", "1.0">> >>)),
      Tag("open", "vtkMultiBlockDataSet", <<>>))

write_vtm_end(w) ==
  Put(Put(w, Tag("close", "vtkMultiBlockDataSet", <<>>)), Tag("close", "VTKFile", <<>>))

write_vtm_source_file(w, i, file) ==
  Put(w, Tag("empty", "DataSet", << <<"index", to_string(i)>>, <<"file", file>> >>))

\* a file name that counts the blocks from one
vtm_file_from_one(prefix, i) == prefix \o to_string(i + 1) \o ".vtr"

\* std::string const file = prefix + std::to_string(i) + ".vtr"
vtm_file(prefix, i) == prefix \o to_string(i) \o ".vtr"

RECURSIVE vtm_loop(_, _, _, _)
\* for (int i = ...; i < nblocks; ++i)
vtm_loop(w, prefix, i, nblocks) ==
  IF i < nblocks
  THEN vtm_loop(write_vtm_source_file(w, i, vtm_file(prefix, i)), prefix, i + 1, nblocks)
  ELSE w

write_vtm(w, prefix, nblocks) ==
  write_vtm_end(vtm_loop(write_vtm_header(w), prefix, 0, nblocks))

---------------------------------------------------------------------------
(* The tree.  A Point is [depth, ijk].  A Tree is [dim, base, refined]:    *)
(* refined is the set of the points of the nodes that have children; the   *)
(* root is at depth 0, and the children of a node at (depth, ijk) are at   *)
(* (depth + 1, 2*ijk + o) for the 2^dim child offsets o.                   *)

Point(depth, ijk) == [depth |-> depth, ijk |-> ijk]

RootPoint == Point(0, <<0, 0, 0>>)

ipow(b, e) == b ^ e

\* the k-th child offset (k from 0): x varies fastest
child_offset(dim, k) ==
  [a \in 1..DIMS |-> IF a <= dim THEN (k \div ipow(2, a - 1)) % 2 ELSE 0]

child_point(dim, pt, k) ==
  Point(pt.depth + 1, [a \in 1..DIMS |-> 2 * pt.ijk[a] + child_offset(dim, k)[a]])

RECURSIVE collect_children(_, _, _)
\* the leaves below the k-th and later children of the node at pt, depth
\* first, the children of a node in the order of their index
collect_children(tree, pt, k) ==
  IF k >= ipow(2, tree.dim) THEN <<>>
  ELSE (IF child_point(tree.dim, pt, k) \in tree.refined
        THEN collect_children(tree, child_point(tree.dim, pt, k), 0)
        ELSE <<child_point(tree.dim, pt, k)>>)
       \o collect_children(tree, pt, k + 1)

\* collect_leaves(tree): its leaves, in the order of the traversal
collect_leaves(tree) ==
  IF RootPoint \in tree.refined THEN collect_children(tree, RootPoint, 0)
  ELSE <<RootPoint>>

\* get_block_domain(base, pt, domain): the box of the node at pt.  base.ijk
\* counts the blocks per axis at depth base.depth (0 along an axis the
\* tree does not divide); each level halves the blocks.
get_block_domain(base, pt, domain) ==
  LET nblocks == [a \in 1..DIMS |->
                    IF base.ijk[a] = 0 THEN 1
                    ELSE base.ijk[a] * ipow(2, pt.depth - base.depth)]
      dx == [a \in 1..DIMS |-> domain.extents[a] \div nblocks[a]]
  IN  [lower |-> [a \in 1..DIMS |-> domain.lower[a] + pt.ijk[a] * dx[a]],
       extents |-> dx]

---------------------------------------------------------------------------
(* The tree geometry writer.                                               *)

write_vtu_header(w) ==
  Put(w, Tag("open", "VTKFile",
             << <<"type", "UnstructuredGrid">>, <<"header_type", "UInt64">>,
                <<"compressor", "vtkZLibDataCompressor">> >>))

vtk_types == <<1, 3, 9, 12>>

write_tree_types(w, dim, num) ==
  LET type == vtk_types[dim + 1]
      types == host_fill(resize(1, num, 1), [i \in 1..num |-> <<type>>])
  IN  write_data_end(write_data(write_data_start(w, "Int8", "types", 1), types, FALSE))

RECURSIVE offsets_loop(_, _, _, _, _)
\* for (int i = ...; i < num; ++i) { offsets.h_view(i, 0) = offset; offset += nents; }
offsets_loop(rows, i, num, off, nents) ==
  IF i < num
  THEN offsets_loop([rows EXCEPT ![i + 1] = <<off>>], i + 1, num, off + nents, nents)
  ELSE rows

\* offsets that start at zero
offsets_first_zero(nents) == 0

\* int offset = nents
offsets_first(nents) == nents

write_tree_offsets(w, num, nents) ==
  LET fresh == resize(4, num, 1)
      offsets == host_fill(fresh, offsets_loop(fresh.hv, 0, num, offsets_first(nents), nents))
  IN  write_data_end(write_data(write_data_start(w, "Int32", "offsets", 1), offsets, FALSE))

write_tree_connectivity(w, npoints) ==
  LET connectivity == host_fill(resize(4, npoints, 1), [k \in 1..npoints |-> <<k - 1>>])
  IN  write_data_end(
        write_data(write_data_start(w, "Int32", "connectivity", 1), connectivity, FALSE))

vtk_corners ==
  << <<0,0,0>>,
     <<1,0,0>>,
     <<1,1,0>>,
     <<0,1,0>>,
     <<0,0,1>>,
     <<1,0,1>>,
     <<1,1,1>>,
     <<0,1,1>> >>

\* x = o + hadamard_product(dx, vtk_corners[c])
tree_corner(box, c) ==
  [a \in 1..DIMS |-> box.lower[a] + box.extents[a] * vtk_corners[c + 1][a]]

\* the row the loops of write_tree_coords store at idx: the idx-th pair
\* (leaf, corner), leaves outermost
tree_coord_row(base, lvs, domain, ncorners, idx) ==
  tree_corner(get_block_domain(base, lvs[(idx \div ncorners) + 1], domain),
              idx % ncorners)

write_tree_coords(w, base, lvs, domain, npoints, ncorners) ==
  LET fresh == resize(8, npoints, DIMS)
      nidx == Len(lvs) * ncorners
      coords == host_fill(fresh,
                  [r \in 1..npoints |->
                     IF r <= nidx THEN tree_coord_row(base, lvs, domain, ncorners, r - 1)
                     ELSE fresh.hv[r]])
  IN  write_data_end(
        write_data(write_data_start(w, "Float64", "coordinates", DIMS), coords, FALSE))

\* the depth of the leaf at the mirrored index
leaf_depth_mirrored(lvs, i) == lvs[Len(lvs) - i].depth

\* leaves[i]->pt().depth
leaf_depth(lvs, i) == lvs[i + 1].depth

write_leaf_depths(w, lvs) ==
  LET nleaves == Len(lvs)
      depths == host_fill(resize(4, nleaves, 1),
                          [i \in 1..nleaves |-> <<leaf_depth(lvs, i - 1)>>])
  IN  write_data_end(write_data(write_data_start(w, "Int32", "depth", 1), depths, FALSE))

\* leaves[i]->pt().ijk
leaf_ijk(lvs, i) == lvs[i + 1].ijk

write_leaf_ijks(w, lvs) ==
  LET nleaves == Len(lvs)
      ijks == host_fill(resize(4, nleaves, DIMS),
                        [i \in 1..nleaves |-> [a \in 1..DIMS |-> leaf_ijk(lvs, i - 1)[a]]])
  IN  write_data_end(write_data(write_data_start(w, "Int32", "ijk", DIMS), ijks, FALSE))

\* the stream of write_tree, up to the call of write_stream; lvs is the
\* vector collect_leaves returned
write_tree_body(w, tree, lvs, domain) ==
  LET dim == tree.dim
      nleaves == Len(lvs)
      ncorners == ipow(2, dim)
      npoints == nleaves * ncorners
      w1 == write_vtu_header(w)
      w2 == Put(w1, Tag("open", "UnstructuredGrid", <<>>))
      w3 == Put(w2, Tag("open", "Piece",
                        << <<"NumberOfPoints", to_string(npoints)>>,
                           <<"NumberOfCells", to_string(nleaves)>> >>))
      w4 == Put(w3, Tag("open", "Cells", <<>>))
      w5 == write_tree_types(w4, dim, nleaves)
      w6 == write_tree_offsets(w5, nleaves, ncorners)
      w7 == write_tree_connectivity(w6, npoints)
      w8 == Put(w7, Tag("close", "Cells", <<>>))
      w9 == Put(w8, Tag("open", "Points", <<>>))
      w10 == write_tree_coords(w9, tree.base, lvs, domain, npoints, ncorners)
      w11 == Put(w10, Tag("close", "Points", <<>>))
      w12 == Put(w11, Tag("open", "CellData", <<>>))
      w13 == write_leaf_depths(w12, lvs)
      w14 == write_leaf_ijks(w13, lvs)
      w15 == Put(w14, Tag("close", "CellData", <<>>))
      w16 == Put(w15, Tag("open", "PointData", <<>>))
      w17 == Put(w16, Tag("close", "PointData", <<>>))
      w18 == Put(w17, Tag("close", "Piece", <<>>))
      w19 == Put(w18, Tag("close", "UnstructuredGrid", <<>>))
  IN  Put(w19, Tag("close", "VTKFile", <<>>))

\* write_stream(file_path, stream) with file_path = path.string() + ".vtu":
\* the set of files after the call
write_stream(fs, path, w) ==
  IF w.err # "none" THEN fs
  ELSE fs \cup {[path |-> path \o ".vtu", content |-> w.stream]}

---------------------------------------------------------------------------
(* The inputs the callers draw from.                                       *)

\* the supported degrees and the first one beyond the offset table
Degrees == 0..Len(offset)

\* the cell grids: every pair of extents along x and y, z following x
CellGrids == {<<nx, ny, MaxCells + 1 - nx>> : nx \in 1..MaxCells, ny \in 1..MaxCells}

\* where a block lies and what the caller says of it
Placements ==
  { [lower |-> <<0, 0, 0>>, dx |-> <<108, 108, 108>>,
     time |-> 0, step |-> 0, depth |-> 0, ijk |-> <<0, 0, 0>>, id |-> 0, owner |-> 0],
    [lower |-> <<-216, 54, 1080>>, dx |-> <<216, 108, 432>>,
     time |-> 1250, step |-> 37, depth |-> 2, ijk |-> <<1, 3, 2>>, id |-> 12, owner |-> 1] }

Blocks ==
  { [p |-> p, cells |-> c, lower |-> g.lower, dx |-> g.dx,
     depth |-> g.depth, ijk |-> g.ijk, id |-> g.id, owner |-> g.owner,
     time |-> g.time, step |-> g.step]
    : p \in Degrees, c \in CellGrids, g \in Placements }

\* what the memory beyond the offset table may hold (in ninths)
Garbage == {0, 9}

\* what the reads of write_coordinate outside the offset table may yield,
\* by the index mod: nothing is read there for a degree the table covers
Mems(p) ==
  IF p + 1 <= Len(offset) THEN {<<>>}
  ELSE {[m \in 1..(p + 1) |-> g] : g \in Garbage}
       \cup {[m \in 1..(p + 1) |-> m - 1]}

ElemTypes == {"int", "float", "double"}

\* a dual view of n0 x n1 elements with the given contents and counters
DualView(T, n0, n1, hv, dv, mh, md) ==
  [sizeofT |-> sizeof(T), n0 |-> n0, n1 |-> n1, hv |-> hv, dv |-> dv,
   modified_host |-> mh, modified_device |-> md]

Fill(n0, n1, v) == [i \in 1..n0 |-> [a \in 1..n1 |-> v]]
Ramp(n0, n1) == [i \in 1..n0 |-> [a \in 1..n1 |-> (i - 1) * n1 + a]]

Contents(n0, n1) == {Fill(n0, n1, v) : v \in {0, -1, 300}} \cup {Ramp(n0, n1)}

\* the dual views of type T a caller may hold: in step (counters equal,
\* both sides alike), modified on the host, or modified on the device
DualViews(T) ==
  UNION { UNION {
    {DualView(T, n0, n1, c, c, 0, 0) : c \in Contents(n0, n1)}
    \cup {DualView(T, n0, n1, h, d, 1, 0) : h \in Contents(n0, n1), d \in Contents(n0, n1)}
    \cup {DualView(T, n0, n1, h, d, 0, 1) : h \in Contents(n0, n1), d \in Contents(n0, n1)}
    : n1 \in 1..2 } : n0 \in 0..MaxElems }

\* the fields written between write_vtr_start and write_vtr_end
GridFields ==
  { [name |-> "rho", T |-> "double",
     view |-> DualView("double", 2, 1, Fill(2, 1, 0), Ramp(2, 1), 0, 1)],
    [name |-> "id", T |-> "int",
     view |-> DualView("int", 1, 1, Fill(1, 1, -1), Fill(1, 1, -1), 0, 0)],
    [name |-> "mom", T |-> "float",
     view |-> DualView("float", 1, 2, Ramp(1, 2), Fill(1, 2, 300), 1, 0)] }

FieldNames == {"rho", "mom"}

Prefixes == {"out_", "", "viz/step7_"}

\* the domain of a tree export and the path it goes to
Exports ==
  { [lower |-> <<0, 0, 0>>, extents |-> <<216, 216, 216>>, path |-> "tree"],
    [lower |-> <<-432, 108, 0>>, extents |-> <<864, 432, 216>>, path |-> "out/tree_3"] }

RECURSIVE Chains(_, _, _)
\* the sets of refined nodes that refine depth levels from pt down: at
\* each level the first or the last child of the node refined before
Chains(dim, pt, depth) ==
  IF depth = 0 THEN {{}}
  ELSE {{}} \cup
       UNION { {{pt} \cup r : r \in Chains(dim, child_point(dim, pt, k), depth - 1)}
               : k \in {0, ipow(2, dim) - 1} }

Trees ==
  UNION { { [dim |-> dim,
             base |-> Point(0, [a \in 1..DIMS |-> IF a <= dim THEN 1 ELSE 0]),
             refined |-> r] : r \in Chains(dim, RootPoint, MaxDepth) }
          : dim \in {2, 3} }

---------------------------------------------------------------------------
(* The state machine: a caller makes one export.                           *)

Init ==
  /\ stream = <<>>
  /\ err = "none"
  /\ calls = <<>>
  /\ pc = "idle"
  /\ inp = [op |-> "none"]
  /\ leaves = <<>>
  /\ ntraverse = 0
  /\ files = {}
  /\ ncall = 0

\* the writer record of a call on the current stream
Writer(zfail) ==
  [stream |-> stream, err |-> "none", calls |-> calls, ncall |-> 0, zfail |-> zfail]

\* the state after an export call that left the writer record w
Returns(w, ok) ==
  /\ stream' = w.stream
  /\ err' = w.err
  /\ calls' = w.calls
  /\ ncall' = w.ncall
  /\ pc' = IF w.err = "none" THEN ok ELSE "failed"

\* the caller calls write_vtr_start on a fresh stream
VtrStart ==
  /\ pc = "idle"
  /\ \E block \in Blocks, zfail \in 0..DIMS :
       \E mem \in Mems(block.p) :
         \E w \in {write_vtr_start(Writer(zfail), block, block.time, block.step, mem)} :
           /\ Returns(w, "cells")
           /\ inp' = [op |-> "vtr", block |-> block, mem |-> mem, fields |-> <<>>]
  /\ UNCHANGED <<leaves, ntraverse, files>>

\* the caller adds a field to the block file
VtrField ==
  /\ pc = "cells"
  /\ Len(inp.fields) < MaxFields
  /\ \E f \in GridFields, zfail \in 0..1 :
       \E w \in {write_field(Writer(zfail), f.T, f.name, f.view)} :
         /\ Returns(w, "cells")
         /\ inp' = [inp EXCEPT !.fields = Append(@, f.name)]
  /\ UNCHANGED <<leaves, ntraverse, files>>

\* the caller ends the block file
VtrEnd ==
  /\ pc = "cells"
  /\ \E w \in {write_vtr_end(Writer(0))} : Returns(w, "vtr_done")
  /\ UNCHANGED <<inp, leaves, ntraverse, files>>

\* a caller gives write_field a stream of its own
BareField ==
  /\ pc = "idle"
  /\ \E T \in ElemTypes, name \in FieldNames, zfail \in 0..1 :
       \E f \in DualViews(T) :
         \E w \in {write_field(Writer(zfail), T, name, f)} :
           /\ Returns(w, "field_done")
           /\ inp' = [op |-> "field", T |-> T, name |-> name, view |-> f]
  /\ UNCHANGED <<leaves, ntraverse, files>>

\* the caller writes a manifest
Vtm ==
  /\ pc = "idle"
  /\ \E prefix \in Prefixes, nblocks \in 0..MaxBlocks :
       \E w \in {write_vtm(Writer(0), prefix, nblocks)} :
         /\ Returns(w, "vtm_done")
         /\ inp' = [op |-> "vtm", prefix |-> prefix, nblocks |-> nblocks]
  /\ UNCHANGED <<leaves, ntraverse, files>>

\* the caller exports the tree: write_tree, whose stream is its own
WriteTree ==
  /\ pc = "idle"
  /\ \E tree \in Trees, ex \in Exports, zfail \in 0..6 :
       \E lvs \in {collect_leaves(tree)} :
         \E w \in {write_tree_body(Writer(zfail), tree, lvs,
                                   [lower |-> ex.lower, extents |-> ex.extents])} :
           /\ leaves' = lvs
           /\ ntraverse' = ntraverse + 1
           /\ Returns(w, "tree_done")
           /\ files' = write_stream(files, ex.path, w)
           /\ inp' = [op |-> "tree", tree |-> tree, path |-> ex.path,
                      domain |-> [lower |-> ex.lower, extents |-> ex.extents]]

Next == VtrStart \/ VtrField \/ VtrEnd \/ BareField \/ Vtm \/ WriteTree

Spec == Init /\ [][Next]_vars

---------------------------------------------------------------------------
(* Reading the output back: what a consumer of the file does with a line   *)
(* of base64 characters.                                                   *)

B64Index == [c \in {B64Chars[i] : i \in 1..64} |-> (CHOOSE i \in 1..64 : B64Chars[i] = c) - 1]

Sextet(c) == IF c = "=" THEN 0 ELSE B64Index[c]

\* the bytes a base64 text stands for
base64_decode(chars) ==
  LET n == Len(chars)
      pad == IF n = 0 THEN 0
             ELSE (IF chars[n] = "=" THEN 1 ELSE 0) + (IF chars[n - 1] = "=" THEN 1 ELSE 0)
  IN  [k \in 1..(3 * (n \div 4) - pad) |->
         LET g == (k - 1) \div 3
             j == (k - 1) % 3
             triple == Sextet(chars[4 * g + 1]) * 262144 + Sextet(chars[4 * g + 2]) * 4096
                       + Sextet(chars[4 * g + 3]) * 64 + Sextet(chars[4 * g + 4])
         IN  (triple \div (256 ^ (2 - j))) % 256]

\* a zlib stream that holds one stored block and a matching checksum
IsStoredZlib(z) ==
  /\ Len(z) >= 11
  /\ z[1] = 120 /\ z[2] = 1 /\ z[3] = 1
  /\ Len(z) = 11 + z[4] + 256 * z[5]
  /\ z[6] = 255 - z[4] /\ z[7] = 255 - z[5]
  /\ SubSeq(z, Len(z) - 3, Len(z)) = Adler32(SubSeq(z, 8, Len(z) - 4))

inflate(z) == SubSeq(z, 8, Len(z) - 4)

\* the base64 characters that hold the 32-byte header, and those after them
HeaderChars == 44
HeaderPart(line) == SubSeq(line.bin, 1, HeaderChars)
PayloadPart(line) == SubSeq(line.bin, HeaderChars + 1, Len(line.bin))

\* the four 64-bit integers of a 32-byte header (each below 2^31 here)
HeaderValues(b) == [i \in 1..4 |-> FromLE(SubSeq(b, 8 * i - 7, 8 * i - 4))]
HeaderHighZero(b) == \A i \in 1..4 : \A j \in 5..8 : b[8 * (i - 1) + j] = 0

\* the bytes of the array a binary line carries
LineData(line) == inflate(base64_decode(PayloadPart(line)))

\* the write_data calls of the last export call
LastCalls == {k \in 1..Len(calls) : k > Len(calls) - ncall}

\* the line a write_data call appended
CallLine(k) == stream[calls[k].at + 1]

---------------------------------------------------------------------------
(* C1: what write_data appends for an array, of any element type and any   *)
(* size (zero elements included), is one line: the base64 text of the      *)
(* 32-byte header {1, rawBytes, rawBytes, compressedBytes} directly        *)
(* followed by the base64 text of the compressed payload, where rawBytes   *)
(* is sizeof(T) times the number of elements of the host view and          *)
(* compressedBytes is the length of the payload that is encoded, not the   *)
(* compressBound of rawBytes.                                              *)
C1_EncodedLine ==
  \A k \in LastCalls :
    ~calls[k].thrown =>
      LET c == calls[k]
          line == CallLine(k)
          hdr == base64_decode(HeaderPart(line))
          payload == base64_decode(PayloadPart(line))
          rawBytes == c.dual.sizeofT * (c.dual.n0 * c.dual.n1)
      IN  /\ Len(stream) > c.at
          /\ line.kind = "binary"
          /\ Len(line.bin) = HeaderChars + 4 * ((Len(payload) + 2) \div 3)
          /\ Len(hdr) = 32
          /\ HeaderHighZero(hdr)
          /\ HeaderValues(hdr) = <<1, rawBytes, rawBytes, Len(payload)>>
          /\ payload = c.compressed
          /\ Len(payload) < c.bound
          /\ IsStoredZlib(payload)
          /\ Len(inflate(payload)) = rawBytes
          /\ inflate(payload) = c.read

\* a write_field call has encoded a double array of 2 x 2 elements
C1_Witness ==
  /\ pc = "field_done"
  /\ inp.T = "double"
  /\ inp.view.n0 = 2 /\ inp.view.n1 = 2
  /\ Len(CallLine(Len(calls)).bin) > HeaderChars

---------------------------------------------------------------------------
(* C7: the bytes write_data compresses are those of the side of the dual   *)
(* view that was modified last: when the device is ahead of the host (the  *)
(* host copy is stale), the device contents have been copied to the host   *)
(* before the bytes are read.  This holds for write_field and for the      *)
(* writers that fill the host view themselves.                             *)
C7_HostCurrent ==
  \A k \in LastCalls :
    LET c == calls[k]
    IN  c.read = RawBytes(Current(c.dual), c.dual.n1, c.dual.sizeofT)

\* write_field was given a view whose host copy was stale and differed
\* from the device's, and encoded the device contents
C7_Witness ==
  /\ pc = "field_done"
  /\ inp.view.modified_device > inp.view.modified_host
  /\ inp.view.hv # inp.view.dv
  /\ LineData(CallLine(Len(calls)))
       = RawBytes(inp.view.dv, inp.view.n1, inp.view.sizeofT)

---------------------------------------------------------------------------
(* C8: a compress2 failure in write_data raises the error before anything  *)
(* of that array's header or payload is appended to the stream; and when   *)
(* it happens in write_tree, write_stream is not reached and no file is    *)
(* written.  A file that is written holds the complete stream.             *)
C8_FailsAtomically ==
  /\ \A k \in LastCalls :
       calls[k].ret # "Z_OK" =>
         /\ err = "vtk - zlib error"
         /\ pc = "failed"
         /\ k = Len(calls)
         /\ Len(stream) = calls[k].at
         /\ stream[Len(stream)].kind = "open"
         /\ stream[Len(stream)].name = "DataArray"
  /\ (inp.op = "tree" /\ pc = "failed") => files = {}
  /\ \A f \in files :
       /\ pc = "tree_done"
       /\ f.content = stream
       /\ stream[Len(stream)] = Tag("close", "VTKFile", <<>>)
       /\ \A k \in 1..Len(calls) : calls[k].ret = "Z_OK"

\* write_tree failed while it compressed its fourth array, the coordinates
C8_Witness ==
  /\ inp.op = "tree"
  /\ pc = "failed"
  /\ Len(calls) = 4
  /\ calls[4].ret = "Z_MEM_ERROR"
  /\ stream[Len(stream)].attrs[2] = <<"Name", "coordinates">>

---------------------------------------------------------------------------
(* Reading the tags of the stream.                                         *)

\* the lines that are a tag of the given kind and name
TagLines(kind, name) ==
  {i \in 1..Len(stream) : stream[i].kind = kind /\ stream[i].name = name}

\* the value of the attribute of a tag line
Attr(line, name) ==
  LET i == CHOOSE j \in 1..Len(line.attrs) : line.attrs[j][1] = name
  IN  line.attrs[i][2]

\* the decimal text of a number below 1000
Decimal(n) ==
  IF n < 10 THEN Digit(n)
  ELSE IF n < 100 THEN Digit(n \div 10) \o Digit(n % 10)
  ELSE Digit(n \div 100) \o Digit((n \div 10) % 10) \o Digit(n % 10)

RECURSIVE Nest(_, _, _)
\* the elements left open after the lines from i on, given those open
\* before; ok is FALSE once a closing tag does not match the innermost
\* open element, or text lies outside a DataArray
Nest(lines, i, open) ==
  IF i > Len(lines) THEN [ok |-> TRUE, open |-> open]
  ELSE LET l == lines[i]
       IN  CASE l.kind = "open" -> Nest(lines, i + 1, Append(open, l.name))
             [] l.kind = "close" ->
                  IF open # <<>> /\ open[Len(open)] = l.name
                  THEN Nest(lines, i + 1, SubSeq(open, 1, Len(open) - 1))
                  ELSE [ok |-> FALSE, open |-> open]
             [] l.kind = "empty" -> Nest(lines, i + 1, open)
             [] OTHER ->
                  IF open # <<>> /\ open[Len(open)] = "DataArray"
                  THEN Nest(lines, i + 1, open)
                  ELSE [ok |-> FALSE, open |-> open]

\* the Name attributes of the DataArray elements opened in lines lo..hi
RECURSIVE ArrayNames(_, _)
ArrayNames(lo, hi) ==
  IF lo > hi THEN <<>>
  ELSE IF stream[lo].kind = "open" /\ stream[lo].name = "DataArray"
       THEN <<Attr(stream[lo], "Name")>> \o ArrayNames(lo + 1, hi)
       ELSE ArrayNames(lo + 1, hi)

VtrContainers ==
  {"VTKFile", "RectilinearGrid", "FieldData", "Piece", "Coordinates", "CellData"}

---------------------------------------------------------------------------
(* C2 (the claim as stated): coordinate generation for a degree outside    *)
(* {0,1,2} fails with an unsupported-degree error before any point of the  *)
(* axis is computed or emitted: no write_data call is made and no          *)
(* coordinate array is in the stream.                                      *)
C2_DegreeFailsFast ==
  (inp.op = "vtr" /\ inp.block.p > 2) =>
    /\ err = "unsupported degree"
    /\ Len(calls) = 0
    /\ \A i \in TagLines("open", "DataArray") : Attr(stream[i], "format") # "binary"

---------------------------------------------------------------------------
(* C5 (the claim as stated): write_vtm emits exactly N DataSet entries, in *)
(* ascending order, the i-th with index i and the file name prefix         *)
(* followed by the decimal i ("out_0", "out_1", "out_2").                  *)
C5_PrefixIndexOnly ==
  pc = "vtm_done" =>
    /\ Cardinality(TagLines("empty", "DataSet")) = inp.nblocks
    /\ \A i \in 0..(inp.nblocks - 1) :
         /\ stream[3 + i].kind = "empty" /\ stream[3 + i].name = "DataSet"
         /\ Attr(stream[3 + i], "index") = Decimal(i)
         /\ Attr(stream[3 + i], "file") = inp.prefix \o Decimal(i)

(* C5 (amended): write_vtm emits exactly N DataSet entries, in ascending   *)
(* order i = 0..N-1, the i-th with index i and the file name prefix        *)
(* followed by the decimal i followed by ".vtr"; none for N = 0.           *)
C5_PrefixIndexVtr ==
  pc = "vtm_done" =>
    /\ Cardinality(TagLines("empty", "DataSet")) = inp.nblocks
    /\ Len(stream) = 4 + inp.nblocks
    /\ \A i \in 0..(inp.nblocks - 1) :
         /\ stream[3 + i].kind = "empty" /\ stream[3 + i].name = "DataSet"
         /\ Attr(stream[3 + i], "index") = Decimal(i)
         /\ Attr(stream[3 + i], "file") = inp.prefix \o Decimal(i) \o ".vtr"

\* the manifest of three blocks with the prefix "out_"
C5_Witness ==
  /\ pc = "vtm_done"
  /\ inp.prefix = "out_" /\ inp.nblocks = 3
  /\ Attr(stream[3], "file") = "out_0.vtr"
  /\ Attr(stream[4], "file") = "out_1.vtr"
  /\ Attr(stream[5], "file") = "out_2.vtr"
  /\ stream[6].kind = "close"

---------------------------------------------------------------------------
(* C6: for a degree p in {0,1,2} and an axis of n cells of width h, the    *)
(* coordinate array of the axis holds (p+1)*n + 1 points; point i is       *)
(* lower + i*dx + t[i mod (p+1)]*dx with dx = h/(p+1) and t = (0) for      *)
(* p = 0, (0,0) for p = 1, (0,-2/9,2/9) for p = 2.  So the points at the   *)
(* cell boundaries are lower + c*h (the first is lower, the last is        *)
(* lower + n*h), and the interior points of a quadratic cell lie 7h/27 and *)
(* 20h/27 into it.                                                         *)
ClaimedOffsets == << <<0>>, <<0, 0>>, <<0, -2, 2>> >>

AxisPoints(axis) == BytesValues(LineData(CallLine(axis)), 4)

C6_Coordinates ==
  (inp.op = "vtr" /\ pc = "cells" /\ inp.fields = <<>> /\ inp.block.p <= 2) =>
    \A axis \in 1..DIMS :
      LET p == inp.block.p
          n == inp.block.cells[axis]
          h == inp.block.dx[axis]
          lo == inp.block.lower[axis]
          pts == AxisPoints(axis)
      IN  /\ Len(pts) = (p + 1) * n + 1
          /\ calls[axis].dual.n0 = (p + 1) * n + 1
          /\ \A i \in 0..((p + 1) * n) :
               /\ 9 * (p + 1) * (pts[i + 1] - lo)
                    = 9 * i * h + ClaimedOffsets[p + 1][(i % (p + 1)) + 1] * h
               /\ (i % (p + 1) = 0) => pts[i + 1] = lo + (i \div (p + 1)) * h
               /\ (p = 1 /\ i % 2 = 1) => 2 * (pts[i + 1] - lo) = (i \div 2) * 2 * h + h
               /\ (p = 2 /\ i % 3 = 1) => 27 * (pts[i + 1] - lo) = (i \div 3) * 27 * h + 7 * h
               /\ (p = 2 /\ i % 3 = 2) => 27 * (pts[i + 1] - lo) = (i \div 3) * 27 * h + 20 * h
          /\ pts[1] = lo
          /\ pts[Len(pts)] = lo + n * h

\* a quadratic block of two cells along x has been started
C6_Witness ==
  /\ inp.op = "vtr" /\ pc = "cells" /\ inp.fields = <<>>
  /\ inp.block.p = 2 /\ inp.block.cells[1] = 2
  /\ Len(AxisPoints(1)) = 7

---------------------------------------------------------------------------
(* C9: the WholeExtent of the RectilinearGrid tag is                       *)
(* "0 (p+1)nx 0 (p+1)ny 0 (p+1)nz" for the block's degree p and cell grid  *)
(* (nx,ny,nz), and the Extent of the Piece tag of the same file is the     *)
(* same text.                                                              *)
ClaimedExtent(p, cells) ==
  "0 " \o Decimal((p + 1) * cells[1]) \o " 0 " \o Decimal((p + 1) * cells[2])
       \o " 0 " \o Decimal((p + 1) * cells[3])

C9_Extents ==
  inp.op = "vtr" =>
    /\ stream[2].kind = "open" /\ stream[2].name = "RectilinearGrid"
    /\ TagLines("open", "RectilinearGrid") = {2}
    /\ Attr(stream[2], "WholeExtent") = ClaimedExtent(inp.block.p, inp.block.cells)
    /\ Cardinality(TagLines("open", "Piece")) = 1
    /\ \A i \in TagLines("open", "Piece") :
         Attr(stream[i], "Extent") = Attr(stream[2], "WholeExtent")

\* a finished file of a quadratic block of 2 x 1 x 1 cells
C9_Witness ==
  /\ inp.op = "vtr" /\ pc = "vtr_done"
  /\ inp.block.p = 2 /\ inp.block.cells = <<2, 1, 1>>
  /\ Attr(stream[2], "WholeExtent") = "0 6 0 3 0 3"

---------------------------------------------------------------------------
(* C10: write_vtr_start, then k write_field calls, then write_vtr_end on   *)
(* an empty stream give a properly nested document: every element opened   *)
(* is closed once, innermost first; the header, the metadata and the       *)
(* coordinates come before the one CellData section; and the k field       *)
(* arrays lie inside it, in the order of the write_field calls.            *)
C10_Nested ==
  (inp.op = "vtr" /\ pc = "vtr_done") =>
    LET end == Nest(stream, 1, <<>>)
        cellOpen == CHOOSE i \in TagLines("open", "CellData") : TRUE
        cellClose == CHOOSE i \in TagLines("close", "CellData") : TRUE
    IN  /\ end.ok /\ end.open = <<>>
        /\ \A e \in VtrContainers :
             /\ Cardinality(TagLines("open", e)) = 1
             /\ Cardinality(TagLines("close", e)) = 1
        /\ Cardinality(TagLines("open", "DataArray"))
             = Cardinality(TagLines("close", "DataArray"))
        /\ Cardinality(TagLines("open", "DataArray")) = 6 + DIMS + Len(inp.fields)
        /\ stream[1].name = "VTKFile" /\ stream[1].kind = "open"
        /\ \A i \in TagLines("close", "FieldData") \cup TagLines("close", "Coordinates")
                    \cup TagLines("open", "Piece") \cup TagLines("open", "RectilinearGrid") :
             i < cellOpen
        /\ ArrayNames(cellOpen + 1, cellClose - 1) = inp.fields
        /\ ArrayNames(1, cellOpen) \o inp.fields = ArrayNames(1, Len(stream))
        /\ Nest(stream, 1, <<>>) = Nest(SubSeq(stream, cellOpen + 1, cellClose - 1), 1, <<>>)

\* a finished file with two fields of different types
C10_Witness ==
  /\ inp.op = "vtr" /\ pc = "vtr_done"
  /\ inp.fields = <<"rho", "id">>
  /\ Nest(stream, 1, <<>>).ok

---------------------------------------------------------------------------
(* The arrays of a tree export, by the order of their write_data calls.    *)

OffsetsCall == 2
ConnectivityCall == 3
CoordsCall == 4
DepthCall == 5
IjkCall == 6

\* the name of the DataArray a write_data call filled
CallName(k) == Attr(stream[calls[k].at], "Name")

\* the corners of a cell of the tree
Corners(dim) == IF dim = 2 THEN 4 ELSE 8

---------------------------------------------------------------------------
(* C3: every per-leaf array of write_tree is derived from the one vector   *)
(* of leaves that the single collect_leaves call returned, and is indexed  *)
(* like it: with c = 2^dim, the coordinate rows i*c .. (i+1)*c-1 are the   *)
(* corners, in the order of vtk_corners, of the box of leaves[i]; depth[i] *)
(* is the depth of leaves[i]; row i of ijk is the ijk of leaves[i].        *)
C3_LeafOrder ==
  pc = "tree_done" =>
    LET L == Len(leaves)
        c == Corners(inp.tree.dim)
        coords == calls[CoordsCall].dual.hv
        depths == BytesValues(LineData(CallLine(DepthCall)), 4)
        ijks == calls[IjkCall].dual.hv
    IN  /\ ntraverse = 1
        /\ leaves = collect_leaves(inp.tree)
        /\ CallName(CoordsCall) = "coordinates"
        /\ CallName(DepthCall) = "depth"
        /\ CallName(IjkCall) = "ijk"
        /\ Len(depths) = L
        /\ Len(ijks) = L
        /\ \A i \in 0..(L - 1) :
             LET box == get_block_domain(inp.tree.base, leaves[i + 1], inp.domain)
             IN  /\ \A k \in 0..(c - 1) :
                      coords[i * c + k + 1]
                        = [a \in 1..DIMS |-> box.lower[a] + vtk_corners[k + 1][a] * box.extents[a]]
                 /\ coords[i * c + 1] = box.lower
                 /\ depths[i + 1] = leaves[i + 1].depth
                 /\ ijks[i + 1] = leaves[i + 1].ijk

\* an octree with leaves at two depths has been exported
C3_Witness ==
  /\ pc = "tree_done"
  /\ inp.tree.dim = 3
  /\ Len(leaves) = 15
  /\ leaves[1].depth # leaves[Len(leaves)].depth
  /\ BytesValues(LineData(CallLine(DepthCall)), 4)[1] = leaves[1].depth

---------------------------------------------------------------------------
(* C4: for a tree export with L leaves in dimension d (c = 2^d corners per *)
(* cell), the offsets array has L entries, offsets[i] = (i+1)*c; the       *)
(* connectivity array has L*c entries, connectivity[k] = k; the            *)
(* coordinates array has L*c rows; and the Piece declares                  *)
(* NumberOfPoints = L*c and NumberOfCells = L.                             *)
C4_CellArrays ==
  pc = "tree_done" =>
    LET L == Len(leaves)
        c == Corners(inp.tree.dim)
        offsets == BytesValues(LineData(CallLine(OffsetsCall)), 4)
        connectivity == BytesValues(LineData(CallLine(ConnectivityCall)), 4)
        piece == stream[CHOOSE i \in TagLines("open", "Piece") : TRUE]
    IN  /\ CallName(OffsetsCall) = "offsets"
        /\ CallName(ConnectivityCall) = "connectivity"
        /\ Len(offsets) = L
        /\ \A i \in 0..(L - 1) : offsets[i + 1] = (i + 1) * c
        /\ offsets[L] = L * c
        /\ Len(connectivity) = L * c
        /\ \A k \in 0..(L * c - 1) : connectivity[k + 1] = k
        /\ calls[CoordsCall].dual.n0 = L * c
        /\ Len(calls[CoordsCall].dual.hv) = L * c
        /\ Len(LineData(CallLine(CoordsCall))) = L * c * DIMS * 8
        /\ Cardinality(TagLines("open", "Piece")) = 1
        /\ Attr(piece, "NumberOfPoints") = Decimal(L * c)
        /\ Attr(piece, "NumberOfCells") = Decimal(L)

\* an octree of eight leaves has been exported: 64 points
C4_Witness ==
  /\ pc = "tree_done"
  /\ inp.tree.dim = 3
  /\ Len(leaves) = 8
  /\ Len(BytesValues(LineData(CallLine(ConnectivityCall)), 4)) = 64

===========================================================================
